---- MODULE Spec2Model ----
(***************************************************************************)
(* Tool-chain execution engine of enzymeml-ts (src/src/v2.ts):             *)
(* extractData -> runToolChain -> planToolCalls / executeToolCalls ->       *)
(* executeSingleTool, with the p-queue scheduler, the p-retry retry loop    *)
(* and the p-timeout race the code delegates to.                            *)
(*                                                                          *)
(* One chain run is modelled.  The planning response, the handlers'         *)
(* outcomes and the timer are the environment: they are chosen              *)
(* nondeterministically, per invocation.  Events handed to the observer     *)
(* callback are recorded per call (toolEvs) and per chain (chainEvs).       *)
(*                                                                          *)
(* Spec and FairSpec: the chain with an observer that returns normally.     *)
(* ObserverSpec: the chain with an observer that may throw when it is       *)
(* handed a tool-level event.                                               *)
(* StreamSpec: the chunks generator of extractData over the provider's      *)
(* stream, after the streaming request was issued.                          *)
(* ExtractSpec: extractData with its tools parameter omitted, empty or       *)
(* supplied.                                                                *)
(* UploadSpec: an ImageUpload or PDFUpload object (src/src/input-types.ts)  *)
(* under upload and toInputContent calls.                                   *)
(***************************************************************************)
EXTENDS Integers, Sequences, FiniteSets, TLC

(* ---------------------------- bounds ----------------------------------- *)
MaxCalls == 2
MaxRetries == 1
MaxConcurrency == 2
MaxBaseLen == 1
MaxEvents == 3
MaxUploads == 3
MaxConversions == 2

(* ------------------- constants of the program -------------------------- *)
DefaultConcurrency == 2
DefaultToolRetries == 1
ExtractConcurrency == 2
ExtractToolRetries == 2

Max(a, b) == IF a >= b THEN a ELSE b

\* An optional number is <<>> (undefined) or <<n>>; this is the `??` operator.
Nullish(opt, d) == IF opt = <<>> THEN d ELSE opt[1]

(* ------------------------ configuration -------------------------------- *)
\* const CONCURRENCY = Math.max(1, opts.concurrency ?? 2)
ConcurrencyOf(opt) == Max(1, Nullish(opt, DefaultConcurrency))

\* const TOOL_RETRIES = Math.max(0, opts.toolRetries ?? 1)
ToolRetriesOf(opt) == Max(0, Nullish(opt, DefaultToolRetries))

ConcurrencyOpts == {<<>>} \cup {<<n>> : n \in 0 .. MaxConcurrency}
ToolRetriesOpts == {<<>>} \cup {<<n>> : n \in -1 .. MaxRetries}

Undefined == "undefined"

\* opts.handlers: a mapping from tool name to handler (here: the handler's identity)
NoHandlers == [n \in {} |-> Undefined]
UserHandlers == [search_databases |-> "userSearch", lookup |-> "userLookup"]
ExtractHandlers == [search_databases |-> "SearchDatabaseTool"]
HandlerMaps == {NoHandlers, UserHandlers}

ToolNames == {"search_databases", "lookup"}

\* params.tools of extractData: omitted (<<>>), or a list of tool specifications
SearchDatabaseToolSpecs == "SearchDatabaseToolSpecs"
ToolsOmitted == <<>>
ToolsParams == {ToolsOmitted, <<<<>>>>, <<<<SearchDatabaseToolSpecs>>>>}

\* faulty variant: an omitted tool set is an empty one
ToolsOfNoDefault(opt) == Nullish(opt, <<>>)

\* const { ..., tools = [SearchDatabaseToolSpecs], ... } = params
ToolsOf(opt) == Nullish(opt, <<SearchDatabaseToolSpecs>>)

(* ------------------------- conversation -------------------------------- *)
Message(role, content) == [type |-> "message", role |-> role, content |-> content]

\* the caller's converted input, by length
BaseInputOf(n) == [k \in 1 .. n |-> Message("user", "query")]

SystemTop == Message("system", "You will see tool search results below.")
SystemFinal == Message("system", "CRITICAL FINAL INSTRUCTION")

(* --------------------- argument text and JSON -------------------------- *)
EmptyArgs == ""
ValidArgs == "{\"query\":\"atp\"}"
MalformedArgs == "{\"query\":"
RawArgTexts == {EmptyArgs, ValidArgs, MalformedArgs}

EmptyObject == [k \in {} |-> TRUE]
UndefinedValue == [undefined |-> TRUE]

\* JSON.parse on the argument texts of the model; ok = FALSE is a SyntaxError
JSONParse(text) ==
    CASE text = ValidArgs -> [ok |-> TRUE, value |-> [query |-> "atp"]]
      [] text = "{}"      -> [ok |-> TRUE, value |-> EmptyObject]
      [] OTHER            -> [ok |-> FALSE, value |-> UndefinedValue]

\* faulty variant: a text that does not parse is taken as no arguments
ParseArgumentsLenient(text) ==
    IF text # EmptyArgs /\ JSONParse(text).ok THEN JSONParse(text)
    ELSE [ok |-> TRUE, value |-> EmptyObject]

\* faulty variant: the empty text is handed to JSON.parse
ParseArgumentsStrict(text) == JSONParse(text)

\* args = call.arguments ? JSON.parse(call.arguments) : {}
ParseArguments(text) ==
    IF text # EmptyArgs THEN JSONParse(text) ELSE [ok |-> TRUE, value |-> EmptyObject]

\* values a handler can fulfil with
HitsValue == [hits |-> 3]
Circular == [self |-> "circular"]
HandlerValues == {HitsValue, UndefinedValue, Circular}

\* how an invocation that fulfilled with v is recorded
OutcomeOf(v) ==
    CASE v = UndefinedValue -> "undefined"
      [] v = Circular       -> "circular"
      [] OTHER              -> "value"

\* faulty variant: String(out) in place of JSON.stringify(out)
JSONStringifyAsString(v) ==
    [kind |-> "text",
     out |-> IF v = UndefinedValue THEN [str |-> "undefined"] ELSE [str |-> "[object Object]"]]

\* JSON.stringify: a JSON text, undefined (for undefined), or a thrown TypeError
\* (for a circular structure).  A JSON text is [json |-> v], v the value it denotes.
JSONStringify(v) ==
    CASE v = UndefinedValue -> [kind |-> "undefined", out |-> UndefinedValue]
      [] v = Circular       -> [kind |-> "throws", out |-> UndefinedValue]
      [] OTHER              -> [kind |-> "text", out |-> [json |-> v]]

EmptyString == [str |-> ""]

IsJSONText(s) == DOMAIN s = {"json"}

\* JSON.parse of an output text
Deserialize(s) == s.json

IsErrorEnvelope(s) == IsJSONText(s) /\ "error" \in DOMAIN Deserialize(s)

(* ----------------------------- errors ---------------------------------- *)
\* faulty variant: a timeout is not retried
FatalKindsWithTimeout == {"TypeError", "NonError", "TimeoutError"}

\* what a failed attempt rejects with
FatalKinds == {"TypeError", "NonError"}
RejectionKinds == {"Error", "TypeError", "NonError"}

\* message: `Timeout after ${timeoutMs}ms: ${call.name}`
TimeoutMessage(name) ==
    IF name = "lookup" THEN "Timeout after 10000ms: lookup"
    ELSE "Timeout after 10000ms: search_databases"

\* error.message of a failure of the given kind
ErrorMessage(kind, name) ==
    CASE kind = "Error"        -> "boom"
      [] kind = "TimeoutError" -> TimeoutMessage(name)
      [] kind = "TypeError"    -> "databases is not iterable"
      [] kind = "NonError"     -> "Non-error was thrown"
      [] kind = "ObserverError" -> "observer failed"
      [] OTHER                 -> "Converting circular structure to JSON"

\* String(err): the error's class name, then its message
ErrorClass(kind) ==
    CASE kind = "Error"        -> "Error"
      [] kind = "TimeoutError" -> "TimeoutError"
      [] kind = "ObserverError" -> "Error"
      [] OTHER                 -> "TypeError"

StringOfError(kind, name) == [class |-> ErrorClass(kind), message |-> ErrorMessage(kind, name)]

\* const error = `Unknown tool: ${call.name}`
UnknownToolError(name) == [class |-> "Unknown tool", message |-> name]

InvalidJSONError == [class |-> "Invalid JSON arguments", message |-> ""]

(* ------------------------------ events --------------------------------- *)
\* an event handed to onEvent; the payload keeps what identifies the occurrence
ChainEvent(type, n) == [type |-> type, n |-> n]
ToolEvent(type, callId, attempt, error) ==
    [type |-> type, callId |-> callId, attempt |-> attempt, error |-> error]

NoError == [class |-> "", message |-> ""]

\* the tool_start event: its payload carries the parsed arguments
ToolStart(callId, args) ==
    [type |-> "tool_start", callId |-> callId, attempt |-> 0, error |-> NoError,
     args |-> args]

\* the tool-level event types, emitted by executeSingleTool
ToolEventTypes == {"tool_start", "tool_retry", "tool_success", "tool_error"}

\* onEvent, by the set of event types on which it throws an Error
QuietObserver == {}
Observers == {QuietObserver} \cup {{type} : type \in ToolEventTypes}

\* what a throwing observer throws
ObserverError == "ObserverError"

(* ---------------------------- stream items ----------------------------- *)
\* the provider's event types the generator listens to, and the kind of the
\* StreamItem each listener pushes
StreamEventTypes ==
    {"response.output_text.delta", "response.refusal.delta", "response.error"}

KindOf(eventType) ==
    CASE eventType = "response.output_text.delta" -> "text"
      [] eventType = "response.refusal.delta"     -> "refusal"
      [] OTHER                                    -> "error"

\* an event of the provider; seq stands for its payload (e.delta or e.error)
StreamEvent(eventType, seq) == [type |-> eventType, seq |-> seq]

\* {kind: "text", delta} | {kind: "refusal", delta} | {kind: "error", error}
StreamItem(e) ==
    IF KindOf(e.type) = "error" THEN [kind |-> "error", error |-> e.seq]
    ELSE [kind |-> KindOf(e.type), delta |-> e.seq]

(* ------------------------------- state --------------------------------- *)
VARIABLES
    entry,         \* "extractData" or "runToolChain": the exported function called
    toolsParam,    \* params.tools of extractData; for runToolChain its argument
    CONCURRENCY,   \* runToolChain's const CONCURRENCY
    TOOL_RETRIES,  \* runToolChain's const TOOL_RETRIES
    handlers,      \* opts.handlers
    baseInput,     \* the caller's array
    pc,            \* position of the chain
    toolCalls,     \* the planned calls (planToolCalls' result)
    input,         \* runToolChain's local conversation
    tasks,         \* per planned call: the queue job running executeSingleTool
                   \* (invoked and outcomes record the handler invocations made)
    toolEvs,       \* per planned call: the events emitted for it, in order
    chainEvs,      \* the chain-level events, in order
    streamInput,   \* the conversation handed to client.responses.stream
    observer,      \* onEvent / onToolChainEvent: the event types it throws on
    requests,      \* the requests issued to the client, in order
    emitted,       \* the events the provider's stream has emitted, in order
    pushed,        \* the items the listeners have pushed, in order
    queue,         \* the generator's const queue: StreamItem[]
    done,          \* the generator's let done
    completion,    \* state of the promise of stream.finalResponse()
    gen,           \* state of the generator object behind chunks
    yielded,       \* the items the consumer has received, in order
    inputClass,    \* the class of an upload object: "ImageUpload" or "PDFUpload"
    pages,         \* PDFUpload's this.pages
    uploadResult,  \* BaseInput's this.uploadResult
    uploadCalls,   \* the calls of upload(client) made on the object, in call order
    created,       \* the number of files the provider has created
    lastCompleted, \* the file id the latest fulfilled upload() resolved with
    content,       \* the outcome of the latest toInputContent() call
    conversions    \* the number of toInputContent() calls made

\* the variables of the chunks generator and of the stream it listens to
aggregator == <<emitted, pushed, queue, done, completion, gen, yielded>>

\* the variables of an upload object
uploader == <<inputClass, pages, uploadResult, uploadCalls, created, lastCompleted,
              content, conversions>>

vars == <<entry, toolsParam, CONCURRENCY, TOOL_RETRIES, handlers, baseInput, pc, toolCalls,
          input, tasks, toolEvs, chainEvs, streamInput, observer, requests,
          aggregator, uploader>>

config == <<entry, toolsParam, CONCURRENCY, TOOL_RETRIES, handlers, baseInput, observer>>

NoResult == [none |-> TRUE]

\* a job of the queue before it is started
QueuedTask ==
    [st |-> "queued", attemptNumber |-> 0, invoked |-> 0, errors |-> <<>>,
     outcomes |-> <<>>, handler |-> Undefined, args |-> UndefinedValue,
     result |-> NoResult, rank |-> 0]

Calls == 1 .. Len(toolCalls)

(* --------------------------- tool registry ----------------------------- *)
\* const handlerFor = (name) => opts.handlers?.[name]
handlerFor(name) == IF name \in DOMAIN handlers THEN handlers[name] ELSE Undefined

\* faulty variant: the built-in search handler stands in for every unmapped name
ResolveHandlerAnyName(name) ==
    IF handlerFor(name) # Undefined THEN handlerFor(name) ELSE "SearchDatabaseTool"

\* handlerFor(call.name) ?? (call.name === "search_databases" ? SearchDatabaseTool : undefined)
ResolveHandler(name) ==
    IF handlerFor(name) # Undefined THEN handlerFor(name)
    ELSE IF name = "search_databases" THEN "SearchDatabaseTool" ELSE Undefined

(* ------------------------------ p-retry -------------------------------- *)
\* pRetry(timedExecution, {retries, ...}) as the code uses it: an attempt that
\* rejects with a non-Error value or with a TypeError (other than a network
\* error) ends the retrying at once; any other error goes to onFailedAttempt,
\* after every failed attempt, the last one included, and is retried while
\* retries are left; when none is left pRetry rejects with retry's mainError().
\* retry's mainError(): the error whose message occurred most often, the latest
\* one to reach that count winning a tie
Occurrences(errs, k) == Cardinality({j \in 1 .. k : errs[j] = errs[k]})

RECURSIVE MainErrorFrom(_, _, _, _)
MainErrorFrom(errs, k, main, mainCount) ==
    IF k > Len(errs) THEN main
    ELSE IF Occurrences(errs, k) >= mainCount
         THEN MainErrorFrom(errs, k + 1, errs[k], Occurrences(errs, k))
         ELSE MainErrorFrom(errs, k + 1, main, mainCount)

MainError(errs) == MainErrorFrom(errs, 1, "Error", 0)

\* faulty variant: the budget counts attempts, not retries
RetriesLeftCountsAttempts(attemptNumber, retries) == retries - attemptNumber

\* p-retry retries while the attempts made do not exceed the retry budget
RetriesLeft(attemptNumber, retries) == retries - (attemptNumber - 1)

(* ------------------------------ p-queue -------------------------------- *)
\* new PQueue({concurrency: CONCURRENCY, ...}); opts.intervalCap and opts.interval
\* are left unset, as extractData leaves them.
\* jobs started and not yet settled
Running == {i \in Calls : tasks[i].st \in {"pending", "backoff"}}

\* faulty variant: the queue ignores its concurrency cap
PQueueCanStartUncapped(i) ==
    /\ tasks[i].st = "queued"
    /\ \A j \in Calls : j < i => tasks[j].st # "queued"

\* the queue starts its oldest waiting job when fewer than `concurrency` jobs run
PQueueCanStart(i) ==
    /\ tasks[i].st = "queued"
    /\ \A j \in Calls : j < i => tasks[j].st # "queued"
    /\ Cardinality(Running) < CONCURRENCY

(* --------------------------- initial states ---------------------------- *)
\* the generator object is created by extractData's last statements; until then
\* there is no stream
NoStream ==
    /\ emitted = <<>>
    /\ pushed = <<>>
    /\ queue = <<>>
    /\ done = FALSE
    /\ completion = "pending"
    /\ gen = "suspendedStart"
    /\ yielded = <<>>

\* an upload object as its constructor leaves it
Constructed ==
    /\ uploadResult = UndefinedValue
    /\ uploadCalls = <<>>
    /\ created = 0
    /\ lastCompleted = ""
    /\ content = NoResult
    /\ conversions = 0

\* the call's input holds no upload object
NoUpload ==
    /\ inputClass = "ImageUpload"
    /\ pages = <<>>
    /\ Constructed

\* extractData or runToolChain has just been called
Called ==
    /\ requests = <<>>
    /\ NoStream
    /\ NoUpload
    /\ entry \in {"extractData", "runToolChain"}
    /\ IF entry = "extractData"
       THEN /\ CONCURRENCY = ConcurrencyOf(<<ExtractConcurrency>>)
            /\ TOOL_RETRIES = ToolRetriesOf(<<ExtractToolRetries>>)
            /\ handlers = ExtractHandlers
       ELSE /\ \E opt \in ConcurrencyOpts : CONCURRENCY = ConcurrencyOf(opt)
            /\ \E opt \in ToolRetriesOpts : TOOL_RETRIES = ToolRetriesOf(opt)
            /\ handlers \in HandlerMaps
    /\ \E n \in 0 .. MaxBaseLen : baseInput = BaseInputOf(n)
    /\ pc = "called"
    /\ toolCalls = <<>>
    /\ input = <<>>
    /\ tasks = <<>>
    /\ toolEvs = <<>>
    /\ chainEvs = <<>>
    /\ streamInput = <<>>

\* the caller passes a tool set
ToolsSupplied == toolsParam = <<<<SearchDatabaseToolSpecs>>>>

\* a call with a tool set and an observer that returns normally
Init == observer = QuietObserver /\ ToolsSupplied /\ Called

\* a call with a tool set and an observer that may throw
ObserverInit == observer \in Observers /\ ToolsSupplied /\ Called

\* extractData called with any of the tool parameters
ExtractInit ==
    /\ observer = QuietObserver
    /\ toolsParam \in ToolsParams
    /\ Called
    /\ entry = "extractData"

(* ------------------------------ planning ------------------------------- *)
FunctionCall(id, name, arguments) ==
    [type |-> "function_call", call_id |-> id, name |-> name, arguments |-> arguments]

\* provider-assigned identifiers, unique within one planning response
CallIdAt(k) == 100 + k

\* resp.output: function_call items, possibly after an item of another type
PlanOutputs ==
    UNION {
        { pre \o [k \in 1 .. n |-> FunctionCall(CallIdAt(k), names[k], args[k])] :
            names \in [1 .. n -> ToolNames],
            args \in [1 .. n -> RawArgTexts],
            pre \in {<<>>, <<Message("assistant", "plan")>>} } :
        n \in 0 .. MaxCalls }

IsFunctionCall(item) == item.type = "function_call"

\* planToolCalls: the function_call items of the response, in emission order
planToolCalls(output) == SelectSeq(output, IsFunctionCall)

(* ---------------------------- runToolChain ----------------------------- *)
\* let input = [...baseInput]; onEvent chain_start; the planning request is issued
ChainStart ==
    /\ pc = "called"
    /\ entry = "extractData" => Len(ToolsOf(toolsParam)) > 0
    /\ input' = baseInput
    /\ chainEvs' = Append(chainEvs, ChainEvent("chain_start", Len(baseInput)))
    /\ requests' = Append(requests, "responses.create")
    /\ pc' = "planning"
    /\ UNCHANGED <<config, uploader, aggregator, toolCalls, tasks, toolEvs, streamInput>>

\* faulty variant: a failed planning request is issued again
PlanFailsRetries ==
    /\ pc = "planning"
    /\ Len(requests) < 3
    /\ requests' = Append(requests, "responses.create")
    /\ UNCHANGED <<config, uploader, aggregator, pc, toolCalls, input, tasks, toolEvs, chainEvs,
                   streamInput>>

\* the planning round-trip rejects: runToolChain rejects with that error
PlanFails ==
    /\ pc = "planning"
    /\ pc' = "rejected"
    /\ UNCHANGED <<config, uploader, aggregator, requests, toolCalls, input, tasks, toolEvs, chainEvs, streamInput>>

\* faulty variant: the function_call entries are appended twice
AppendFunctionCallsTwice(conv, calls) ==
    conv \o [k \in 1 .. Len(calls) |->
                FunctionCall(calls[k].call_id, calls[k].name, calls[k].arguments)]
         \o [k \in 1 .. Len(calls) |->
                FunctionCall(calls[k].call_id, calls[k].name, calls[k].arguments)]

\* input.push(...toolCalls.map(c => ({type: "function_call", ...})))
AppendFunctionCalls(conv, calls) ==
    conv \o [k \in 1 .. Len(calls) |->
                FunctionCall(calls[k].call_id, calls[k].name, calls[k].arguments)]

\* faulty variant: no early return when nothing was planned
PlanReturnsWithoutShortCircuit ==
    /\ pc = "planning"
    /\ \E output \in PlanOutputs :
        LET calls == planToolCalls(output) IN
        /\ toolCalls' = calls
        /\ chainEvs' = Append(chainEvs, ChainEvent("planning_result", Len(calls)))
        /\ input' = AppendFunctionCalls(input, calls)
        /\ tasks' = [k \in 1 .. Len(calls) |-> QueuedTask]
        /\ toolEvs' = [k \in 1 .. Len(calls) |-> <<>>]
        /\ pc' = "executing"
    /\ UNCHANGED <<config, uploader, aggregator, requests, streamInput>>

\* the planning response arrives: either the no-tools return, or planning_result,
\* the function_call entries and one queue job per call (executeToolCalls' map)
PlanReturns ==
    /\ pc = "planning"
    /\ \E output \in PlanOutputs :
        LET calls == planToolCalls(output) IN
        /\ toolCalls' = calls
        /\ IF Len(calls) = 0
           THEN /\ chainEvs' = chainEvs \o <<ChainEvent("no_tools", 0),
                                             ChainEvent("chain_complete", Len(input))>>
                /\ pc' = "returned"
                /\ UNCHANGED <<input, tasks, toolEvs>>
           ELSE /\ chainEvs' = Append(chainEvs, ChainEvent("planning_result", Len(calls)))
                /\ input' = AppendFunctionCalls(input, calls)
                /\ tasks' = [k \in 1 .. Len(calls) |-> QueuedTask]
                /\ toolEvs' = [k \in 1 .. Len(calls) |-> <<>>]
                /\ pc' = "executing"
    /\ UNCHANGED <<config, uploader, aggregator, requests, streamInput>>

(* -------------------------- executeSingleTool -------------------------- *)
\* onEvent?.(e) throws on the events of this type
Throws(type) == type \in observer

\* the place of a job settling now in the order in which the batch's jobs settle
NextRank == Cardinality({j \in Calls : tasks[j].st \in {"fulfilled", "rejected"}}) + 1

\* a settled job: executeSingleTool's promise fulfilled with {call_id, output}
Fulfilled(t, callId, output) ==
    [t EXCEPT !.st = "fulfilled", !.result = [call_id |-> callId, output |-> output],
              !.rank = NextRank]

\* a settled job: executeSingleTool's promise rejected with an error of this kind
Rejected(t, kind) ==
    [t EXCEPT !.st = "rejected", !.result = [reason |-> kind], !.rank = NextRank]

\* JSON.stringify({ error: String(err) })
ErrorEnvelope(kind, name) == [json |-> [error |-> StringOfError(kind, name)]]

\* faulty variant: the catch block reports the error and throws it on
CatchBlockRethrows(i, t, evs, kind) ==
    /\ toolEvs' = [toolEvs EXCEPT ![i] = Append(evs,
           ToolEvent("tool_error", toolCalls[i].call_id, t.attemptNumber,
                     StringOfError(kind, toolCalls[i].name)))]
    /\ tasks' = [tasks EXCEPT ![i] = Rejected(t, kind)]

\* the catch block, entered with the events evs emitted so far for the call:
\* tool_error with String(err), then the error result; an observer that throws
\* on tool_error makes executeSingleTool reject
CatchBlock(i, t, evs, kind) ==
    /\ toolEvs' = [toolEvs EXCEPT ![i] = Append(evs,
           ToolEvent("tool_error", toolCalls[i].call_id, t.attemptNumber,
                     StringOfError(kind, toolCalls[i].name)))]
    /\ tasks' = [tasks EXCEPT ![i] =
           IF Throws("tool_error") THEN Rejected(t, ObserverError)
           ELSE Fulfilled(t, toolCalls[i].call_id, ErrorEnvelope(kind, toolCalls[i].name))]

\* the queue starts job i: executeSingleTool runs up to its first await
StartJob(i) ==
    /\ pc = "executing"
    /\ PQueueCanStart(i)
    /\ LET call == toolCalls[i]
           parsed == ParseArguments(call.arguments)
           handler == ResolveHandler(call.name)
           started == ToolStart(call.call_id, parsed.value)
       IN
       IF ~parsed.ok
       THEN /\ toolEvs' = [toolEvs EXCEPT ![i] = Append(@,
                   ToolEvent("tool_error", call.call_id, 0, InvalidJSONError))]
            /\ tasks' = [tasks EXCEPT ![i] =
                   IF Throws("tool_error") THEN Rejected(@, ObserverError)
                   ELSE Fulfilled(@, call.call_id,
                           [json |-> [error |-> InvalidJSONError, raw |-> call.arguments]])]
       ELSE IF Throws("tool_start")
       THEN /\ toolEvs' = [toolEvs EXCEPT ![i] = Append(@, started)]
            /\ tasks' = [tasks EXCEPT ![i] = Rejected(@, ObserverError)]
       ELSE IF handler = Undefined
       THEN /\ toolEvs' = [toolEvs EXCEPT ![i] = @ \o <<started,
                   ToolEvent("tool_error", call.call_id, 0, UnknownToolError(call.name))>>]
            /\ tasks' = [tasks EXCEPT ![i] =
                   IF Throws("tool_error") THEN Rejected(@, ObserverError)
                   ELSE Fulfilled(@, call.call_id,
                           [json |-> [error |-> UnknownToolError(call.name),
                                      args |-> parsed.value]])]
       ELSE /\ toolEvs' = [toolEvs EXCEPT ![i] = Append(@, started)]
            /\ tasks' = [tasks EXCEPT ![i] =
                   [@ EXCEPT !.st = "pending", !.attemptNumber = 1, !.invoked = 1,
                             !.handler = handler, !.args = parsed.value]]
    /\ UNCHANGED <<config, uploader, aggregator, requests, pc, toolCalls, input, chainEvs, streamInput>>

\* p-retry's handling of a failed attempt of job t, entered with the events evs
\* emitted so far for the call.  A non-Error rejection and a TypeError end the
\* retrying at once; any other error is handed to onFailedAttempt (tool_retry,
\* attempt: e.attemptNumber + 1), whose throw ends the retrying with the thrown
\* error, and is then retried if retries are left.
FailedAttempt(i, t, evs, kind) ==
    LET call == toolCalls[i]
        errs == Append(t.errors, kind)
        failed == [t EXCEPT !.errors = errs]
        retry == ToolEvent("tool_retry", call.call_id, t.attemptNumber + 1, NoError)
    IN
    IF kind \in FatalKinds
    THEN CatchBlock(i, t, evs, kind)
    ELSE IF Throws("tool_retry")
    THEN CatchBlock(i, failed, Append(evs, retry), ObserverError)
    ELSE IF RetriesLeft(t.attemptNumber, TOOL_RETRIES) > 0
    THEN /\ toolEvs' = [toolEvs EXCEPT ![i] = Append(evs, retry)]
         /\ tasks' = [tasks EXCEPT ![i] = [failed EXCEPT !.st = "backoff"]]
    ELSE CatchBlock(i, failed, Append(evs, retry), MainError(errs))

\* faulty variant: the job pushes its own output into the conversation when its
\* handler fulfils
HandlerFulfilsAppends(i, v) ==
    /\ pc = "executing"
    /\ tasks[i].st = "pending"
    /\ LET call == toolCalls[i]
           t == [tasks[i] EXCEPT !.outcomes = Append(@, OutcomeOf(v))]
           text == JSONStringify(v)
           out == IF text.kind = "throws" THEN ErrorEnvelope("Circular", call.name)
                  ELSE text.out
       IN
       /\ toolEvs' = [toolEvs EXCEPT ![i] = Append(@,
              ToolEvent("tool_success", call.call_id, tasks[i].attemptNumber, NoError))]
       /\ tasks' = [tasks EXCEPT ![i] = Fulfilled(t, call.call_id, out)]
       /\ input' = Append(input, [type |-> "function_call_output",
                                  call_id |-> call.call_id,
                                  output |-> IF out = UndefinedValue THEN EmptyString
                                             ELSE out])
    /\ UNCHANGED <<config, uploader, aggregator, requests, pc, toolCalls, chainEvs, streamInput>>

\* the handler's promise fulfils within the timeout: tool_success, whose throw
\* fails the attempt, then JSON.stringify(out), whose throw lands in the catch
\* block
HandlerFulfils(i, v) ==
    /\ pc = "executing"
    /\ tasks[i].st = "pending"
    /\ LET call == toolCalls[i]
           t == [tasks[i] EXCEPT !.outcomes = Append(@, OutcomeOf(v))]
           evs == Append(toolEvs[i],
                     ToolEvent("tool_success", call.call_id, tasks[i].attemptNumber, NoError))
           text == JSONStringify(v)
       IN
       IF Throws("tool_success")
       THEN FailedAttempt(i, t, evs, ObserverError)
       ELSE IF text.kind = "throws"
       THEN CatchBlock(i, t, evs, "Circular")
       ELSE /\ toolEvs' = [toolEvs EXCEPT ![i] = evs]
            /\ tasks' = [tasks EXCEPT ![i] = Fulfilled(t, call.call_id, text.out)]
    /\ UNCHANGED <<config, uploader, aggregator, requests, pc, toolCalls, input, chainEvs, streamInput>>

\* the handler throws or its promise rejects within the timeout
HandlerRejects(i, kind) ==
    /\ pc = "executing"
    /\ tasks[i].st = "pending"
    /\ FailedAttempt(i, [tasks[i] EXCEPT !.outcomes = Append(@, kind)], toolEvs[i], kind)
    /\ UNCHANGED <<config, uploader, aggregator, requests, pc, toolCalls, input, chainEvs, streamInput>>

\* faulty variant: the timer is never armed
TimeoutNeverFires(i) == FALSE /\ UNCHANGED vars

\* pTimeout's timer fires before the handler settled: the attempt rejects with a
\* TimeoutError carrying the message.  pTimeout does not cancel the promise it
\* was given and the handler was called without the controller's signal: the
\* invocation goes on running
TimeoutFires(i) ==
    /\ pc = "executing"
    /\ tasks[i].st = "pending"
    /\ FailedAttempt(i, [tasks[i] EXCEPT !.outcomes = Append(@, "TimeoutError")],
                     toolEvs[i], "TimeoutError")
    /\ UNCHANGED <<config, uploader, aggregator, requests, pc, toolCalls, input, chainEvs, streamInput>>

\* the backoff delay elapses: p-retry invokes timedExecution again
RetryFires(i) ==
    /\ pc = "executing"
    /\ tasks[i].st = "backoff"
    /\ tasks' = [tasks EXCEPT ![i] =
           [@ EXCEPT !.st = "pending", !.attemptNumber = @ + 1, !.invoked = @ + 1]]
    /\ UNCHANGED <<config, uploader, aggregator, requests, pc, toolCalls, input, toolEvs, chainEvs, streamInput>>

(* --------------------------- executeToolCalls -------------------------- *)
Settled(t) == t.st \in {"fulfilled", "rejected"}

\* output ?? ""
OutputOrEmpty(o) == IF o = UndefinedValue THEN EmptyString ELSE o

\* faulty variant: every output carries the identifier of the first call
executeToolCallsFirstId(calls, jobs) ==
    [k \in 1 .. Len(calls) |->
        [type |-> "function_call_output",
         call_id |-> calls[1].call_id,
         output |-> IF jobs[k].st = "fulfilled" THEN OutputOrEmpty(jobs[k].result.output)
                    ELSE ErrorEnvelope(jobs[k].result.reason, calls[k].name)]]

\* faulty variant: the outputs are collected as the jobs settle
executeToolCallsByCompletion(calls, jobs) ==
    [p \in 1 .. Len(calls) |->
        LET k == CHOOSE j \in 1 .. Len(calls) : jobs[j].rank = p IN
        [type |-> "function_call_output",
         call_id |-> calls[k].call_id,
         output |-> IF jobs[k].st = "fulfilled" THEN OutputOrEmpty(jobs[k].result.output)
                    ELSE ErrorEnvelope(jobs[k].result.reason, calls[k].name)]]

\* results.map(...) followed by the defaulting map of the return statement
executeToolCalls(calls, jobs) ==
    [k \in 1 .. Len(calls) |->
        [type |-> "function_call_output",
         call_id |-> IF jobs[k].st = "fulfilled" THEN jobs[k].result.call_id
                     ELSE calls[k].call_id,
         output |-> IF jobs[k].st = "fulfilled" THEN OutputOrEmpty(jobs[k].result.output)
                    ELSE ErrorEnvelope(jobs[k].result.reason, calls[k].name)]]

\* faulty variant: chain_complete is emitted before the batch's outputs_appended
ChainJoinCompletesFirst ==
    /\ pc = "executing"
    /\ \A i \in Calls : Settled(tasks[i])
    /\ LET outputs == executeToolCalls(toolCalls, tasks) IN
        /\ input' = input \o outputs
        /\ chainEvs' = chainEvs \o <<ChainEvent("chain_complete", Len(input) + Len(outputs)),
                                     ChainEvent("outputs_appended", Len(outputs))>>
    /\ pc' = "returned"
    /\ UNCHANGED <<config, uploader, aggregator, requests, toolCalls, tasks, toolEvs, streamInput>>

\* faulty variant: the batch is joined fail-fast, as by Promise.all
ChainJoinFailFast ==
    /\ pc = "executing"
    /\ IF \E i \in Calls : tasks[i].st = "rejected"
       THEN pc' = "rejected" /\ UNCHANGED <<input, chainEvs>>
       ELSE /\ \A i \in Calls : Settled(tasks[i])
            /\ input' = input \o executeToolCalls(toolCalls, tasks)
            /\ chainEvs' = chainEvs \o
                   <<ChainEvent("outputs_appended", Len(toolCalls)),
                     ChainEvent("chain_complete", Len(input) + Len(toolCalls))>>
            /\ pc' = "returned"
    /\ UNCHANGED <<config, uploader, aggregator, requests, toolCalls, tasks, toolEvs, streamInput>>

\* faulty variant: the conversation is the caller's array itself, not a copy
ChainJoinInPlace ==
    /\ pc = "executing"
    /\ \A i \in Calls : Settled(tasks[i])
    /\ LET outputs == executeToolCalls(toolCalls, tasks) IN
        /\ input' = input \o outputs
        /\ baseInput' = input \o outputs
        /\ chainEvs' = chainEvs \o <<ChainEvent("outputs_appended", Len(outputs)),
                                     ChainEvent("chain_complete", Len(input) + Len(outputs))>>
    /\ pc' = "returned"
    /\ UNCHANGED <<entry, toolsParam, CONCURRENCY, TOOL_RETRIES, handlers, observer,
                   uploader, aggregator,
                   requests, toolCalls, tasks, toolEvs, streamInput>>

\* Promise.allSettled resolves: outputs_appended, input.push(...outputs),
\* chain_complete, return input
ChainJoin ==
    /\ pc = "executing"
    /\ \A i \in Calls : Settled(tasks[i])
    /\ LET outputs == executeToolCalls(toolCalls, tasks) IN
        /\ input' = input \o outputs
        /\ chainEvs' = chainEvs \o <<ChainEvent("outputs_appended", Len(outputs)),
                                     ChainEvent("chain_complete", Len(input) + Len(outputs))>>
    /\ pc' = "returned"
    /\ UNCHANGED <<config, uploader, aggregator, requests, toolCalls, tasks, toolEvs, streamInput>>

(* ------------------------------ extractData ---------------------------- *)
\* faulty variant: the streaming request does not wait for the chain
StreamRequestWhileExecuting ==
    /\ entry = "extractData"
    /\ pc \in {"executing", "returned"}
    /\ streamInput' = <<SystemTop>> \o input \o <<SystemFinal>>
    /\ requests' = Append(requests, "responses.stream")
    /\ pc' = "streaming"
    /\ UNCHANGED <<config, uploader, aggregator, toolCalls, input, tasks, toolEvs, chainEvs>>

\* processedInput = [SystemQuery(...), ...processedInput]; push(SystemQuery(...));
\* client.responses.stream({ input: processedInput })
StreamRequest ==
    /\ entry = "extractData"
    /\ pc = "returned"
    /\ streamInput' = <<SystemTop>> \o input \o <<SystemFinal>>
    /\ requests' = Append(requests, "responses.stream")
    /\ pc' = "streaming"
    /\ UNCHANGED <<config, uploader, aggregator, toolCalls, input, tasks, toolEvs, chainEvs>>

\* tools is empty: both if (tools && tools.length > 0) blocks are skipped and
\* the converted input goes to client.responses.stream as it is
StreamWithoutTools ==
    /\ entry = "extractData"
    /\ pc = "called"
    /\ Len(ToolsOf(toolsParam)) = 0
    /\ streamInput' = baseInput
    /\ requests' = Append(requests, "responses.stream")
    /\ pc' = "streaming"
    /\ UNCHANGED <<config, uploader, aggregator, toolCalls, input, tasks, toolEvs, chainEvs>>

(* ---------------------------- specification ---------------------------- *)
Next ==
    \/ ChainStart
    \/ PlanFails
    \/ PlanReturns
    \/ \E i \in Calls : StartJob(i)
    \/ \E i \in Calls : \E v \in HandlerValues : HandlerFulfils(i, v)
    \/ \E i \in Calls : \E kind \in RejectionKinds : HandlerRejects(i, kind)
    \/ \E i \in Calls : TimeoutFires(i)
    \/ \E i \in Calls : RetryFires(i)
    \/ ChainJoin
    \/ StreamRequest

Spec == Init /\ [][Next]_vars

\* the same chain, called with any of the observers
ObserverSpec == ObserverInit /\ [][Next]_vars

\* extractData with or without tools
ExtractNext == Next \/ StreamWithoutTools

ExtractSpec == ExtractInit /\ [][ExtractNext]_vars

\* The event loop runs every due timer and every ready continuation: the queue's
\* start of a waiting job, pTimeout's timer, the backoff timer and the join are
\* fair.  A handler's own settling is not: a handler may never settle.
FairSpec ==
    /\ Spec
    /\ WF_vars(\E i \in Calls : StartJob(i))
    /\ WF_vars(\E i \in Calls : TimeoutFires(i))
    /\ WF_vars(\E i \in Calls : RetryFires(i))
    /\ WF_vars(ChainJoin)

(* ------------------------- the chunks generator ------------------------ *)
\* chain variables, untouched once the streaming request was issued
chain == <<config, pc, toolCalls, input, tasks, toolEvs, chainEvs, streamInput, requests>>

\* extractData has created the generator object and returns, here after a chain
\* that planned no call.  The generator's body has not run: it runs from the
\* consumer's first next().
StreamInit ==
    /\ observer = QuietObserver
    /\ ToolsSupplied
    /\ entry = "extractData"
    /\ CONCURRENCY = ConcurrencyOf(<<ExtractConcurrency>>)
    /\ TOOL_RETRIES = ToolRetriesOf(<<ExtractToolRetries>>)
    /\ handlers = ExtractHandlers
    /\ \E n \in 0 .. MaxBaseLen : baseInput = BaseInputOf(n)
    /\ pc = "streaming"
    /\ toolCalls = <<>>
    /\ input = baseInput
    /\ tasks = <<>>
    /\ toolEvs = <<>>
    /\ chainEvs = <<ChainEvent("chain_start", Len(baseInput)),
                    ChainEvent("no_tools", 0),
                    ChainEvent("chain_complete", Len(baseInput))>>
    /\ streamInput = <<SystemTop>> \o baseInput \o <<SystemFinal>>
    /\ requests = <<"responses.create", "responses.stream">>
    /\ NoStream
    /\ NoUpload

\* const push = (item) => queue.push(item)
push(q, item) == Append(q, item)

\* faulty variant: the newest item is taken
shiftNewest(q) == [item |-> q[Len(q)], rest |-> SubSeq(q, 1, Len(q) - 1)]

\* queue.shift(): the oldest item and what remains
shift(q) == [item |-> Head(q), rest |-> Tail(q)]

\* stream.on(...) has been called: the generator's body has started
Listening == gen # "suspendedStart"

\* the generator runs from the loop's condition to its next suspension, with
\* buffer q and flag d:
\*   while (!done || queue.length) { if (queue.length) yield queue.shift()
\*                                   else await Promise.race([timer, final]) }
RunLoop(q, d) ==
    IF Len(q) > 0
    THEN /\ yielded' = Append(yielded, shift(q).item)
         /\ queue' = shift(q).rest
         /\ gen' = "suspendedYield"
    ELSE /\ gen' = IF d THEN "completed" ELSE "awaiting"
         /\ UNCHANGED <<queue, yielded>>

\* faulty variant: the error listener also ends the iteration
StreamEmitsErrorEnds(eventType) ==
    /\ completion = "pending"
    /\ Len(emitted) < MaxEvents
    /\ LET e == StreamEvent(eventType, Len(emitted) + 1) IN
        /\ emitted' = Append(emitted, e)
        /\ IF Listening
           THEN /\ pushed' = Append(pushed, StreamItem(e))
                /\ queue' = push(queue, StreamItem(e))
           ELSE UNCHANGED <<pushed, queue>>
        /\ done' = (done \/ (Listening /\ KindOf(eventType) = "error"))
    /\ UNCHANGED <<chain, uploader, completion, gen, yielded>>

\* the provider's stream emits an event: the listeners registered for its type
\* run; before the generator's body has started there is none
StreamEmits(eventType) ==
    /\ completion = "pending"
    /\ Len(emitted) < MaxEvents
    /\ LET e == StreamEvent(eventType, Len(emitted) + 1) IN
        /\ emitted' = Append(emitted, e)
        /\ IF Listening
           THEN /\ pushed' = Append(pushed, StreamItem(e))
                /\ queue' = push(queue, StreamItem(e))
           ELSE UNCHANGED <<pushed, queue>>
    /\ UNCHANGED <<chain, uploader, done, completion, gen, yielded>>

\* the stream ends: the promise of stream.finalResponse() settles.  If the
\* generator's body has started, the finally callback sets done and the promise
\* final settles alike; a generator waiting in Promise.race resumes on
\* fulfilment and throws the reason on rejection.
FinalResponseSettles(outcome) ==
    /\ completion = "pending"
    /\ completion' = outcome
    /\ IF ~Listening
       THEN UNCHANGED <<done, gen, queue, yielded>>
       ELSE /\ done' = TRUE
            /\ IF gen # "awaiting" THEN UNCHANGED <<gen, queue, yielded>>
               ELSE IF outcome = "rejected"
               THEN gen' = "threw" /\ UNCHANGED <<queue, yielded>>
               ELSE RunLoop(queue, TRUE)
    /\ UNCHANGED <<chain, uploader, emitted, pushed>>

\* setTimeout(r, 10) wins the race: the loop's condition is evaluated again
PollTimer ==
    /\ gen = "awaiting"
    /\ RunLoop(queue, done)
    /\ UNCHANGED <<chain, uploader, emitted, pushed, done, completion>>

\* the consumer calls next().  The first call runs the body from its start: the
\* listeners are registered, final is created, and the loop finds the new queue
\* empty and waits; a stream that has already ended settles final at once.
\* A later call resumes the loop after the yield.
Pull ==
    /\ gen \in {"suspendedStart", "suspendedYield"}
    /\ IF gen = "suspendedYield"
       THEN RunLoop(queue, done) /\ UNCHANGED done
       ELSE IF completion = "pending"
       THEN gen' = "awaiting" /\ UNCHANGED <<done, queue, yielded>>
       ELSE /\ done' = TRUE
            /\ gen' = IF completion = "rejected" THEN "threw" ELSE "completed"
            /\ UNCHANGED <<queue, yielded>>
    /\ UNCHANGED <<chain, uploader, emitted, pushed, completion>>

StreamNext ==
    \/ \E eventType \in StreamEventTypes : StreamEmits(eventType)
    \/ \E outcome \in {"fulfilled", "rejected"} : FinalResponseSettles(outcome)
    \/ PollTimer
    \/ Pull

StreamSpec == StreamInit /\ [][StreamNext]_vars

(* --------------------------- upload objects ---------------------------- *)
\* file ids as the provider assigns them, in the order of creation
Digits == <<"1", "2", "3", "4", "5", "6", "7", "8", "9">>
FileIdAt(n) == "file-" \o Digits[n]

NotUploadedMessage ==
    "File must be uploaded before converting to input content. Call upload() first."

\* toInputContent() of an object of the class with the stored upload result:
\* the throw of the guard, or the content built from the result's id
toInputContent(class, result) ==
    IF result = UndefinedValue
    THEN [throws |-> NotUploadedMessage]
    ELSE IF class = "ImageUpload"
    THEN [returns |-> <<[type |-> "image_url",
                         image_url |-> [url |-> "file://" \o result.id]]>>]
    ELSE [returns |-> <<[type |-> "input_file", file_id |-> result.id]>>]

\* no call of extractData or runToolChain is in progress
NoCall ==
    /\ entry = "none"
    /\ toolsParam = ToolsOmitted
    /\ CONCURRENCY = DefaultConcurrency
    /\ TOOL_RETRIES = DefaultToolRetries
    /\ handlers = NoHandlers
    /\ baseInput = <<>>
    /\ observer = QuietObserver
    /\ pc = "idle"
    /\ toolCalls = <<>>
    /\ input = <<>>
    /\ tasks = <<>>
    /\ toolEvs = <<>>
    /\ chainEvs = <<>>
    /\ streamInput = <<>>
    /\ requests = <<>>
    /\ NoStream

\* new ImageUpload(file), new PDFUpload(file) or new PDFUpload(file, pages)
UploadInit ==
    /\ NoCall
    /\ inputClass \in {"ImageUpload", "PDFUpload"}
    /\ pages \in IF inputClass = "PDFUpload" THEN {<<>>, <<1>>} ELSE {<<>>}
    /\ Constructed

\* upload(client) is called: a PDFUpload with a page selection awaits
\* processPDF's work first; otherwise uploadFile sends the request
UploadCalled ==
    /\ Len(uploadCalls) < MaxUploads
    /\ uploadCalls' = Append(uploadCalls,
           [st |-> IF inputClass = "PDFUpload" /\ Len(pages) > 0 THEN "processing"
                   ELSE "uploading",
            id |-> ""])
    /\ UNCHANGED <<chain, aggregator, inputClass, pages, uploadResult, created,
                   lastCompleted, content, conversions>>

\* processPDF returns the stream of the selected pages: uploadFile sends the request
ProcessPDFReturns(c) ==
    /\ uploadCalls[c].st = "processing"
    /\ uploadCalls' = [uploadCalls EXCEPT ![c].st = "uploading"]
    /\ UNCHANGED <<chain, aggregator, inputClass, pages, uploadResult, created,
                   lastCompleted, content, conversions>>

\* processPDF throws "Failed to process PDF: ...": upload() rejects
ProcessPDFThrows(c) ==
    /\ uploadCalls[c].st = "processing"
    /\ uploadCalls' = [uploadCalls EXCEPT ![c].st = "rejected"]
    /\ UNCHANGED <<chain, aggregator, inputClass, pages, uploadResult, created,
                   lastCompleted, content, conversions>>

\* the provider creates the file of request c and assigns its id
FileCreated(c) ==
    /\ uploadCalls[c].st = "uploading"
    /\ created' = created + 1
    /\ uploadCalls' = [uploadCalls EXCEPT ![c] = [st |-> "created", id |-> FileIdAt(created + 1)]]
    /\ UNCHANGED <<chain, aggregator, inputClass, pages, uploadResult, lastCompleted,
                   content, conversions>>

\* faulty variant: a failed upload forgets the stored result
UploadRejectsClears(c) ==
    /\ uploadCalls[c].st \in {"uploading", "created"}
    /\ uploadCalls' = [uploadCalls EXCEPT ![c].st = "rejected"]
    /\ uploadResult' = UndefinedValue
    /\ UNCHANGED <<chain, aggregator, inputClass, pages, created, lastCompleted,
                   content, conversions>>

\* client.files.create rejects, the request or its response being lost:
\* await uploadFile(...) throws before the assignment
UploadRejects(c) ==
    /\ uploadCalls[c].st \in {"uploading", "created"}
    /\ uploadCalls' = [uploadCalls EXCEPT ![c].st = "rejected"]
    /\ UNCHANGED <<chain, aggregator, inputClass, pages, uploadResult, created,
                   lastCompleted, content, conversions>>

\* client.files.create resolves with the file object:
\* this.uploadResult = await uploadFile(uploadParams)
UploadResolves(c) ==
    /\ uploadCalls[c].st = "created"
    /\ uploadCalls' = [uploadCalls EXCEPT ![c].st = "fulfilled"]
    /\ uploadResult' = [id |-> uploadCalls[c].id]
    /\ lastCompleted' = uploadCalls[c].id
    /\ UNCHANGED <<chain, aggregator, inputClass, pages, created, content, conversions>>

\* toInputContent() is called
ToInputContentCalled ==
    /\ conversions < MaxConversions
    /\ conversions' = conversions + 1
    /\ content' = toInputContent(inputClass, uploadResult)
    /\ UNCHANGED <<chain, aggregator, inputClass, pages, uploadResult, uploadCalls,
                   created, lastCompleted>>

UploadNext ==
    \/ UploadCalled
    \/ \E c \in 1 .. Len(uploadCalls) : ProcessPDFReturns(c)
    \/ \E c \in 1 .. Len(uploadCalls) : ProcessPDFThrows(c)
    \/ \E c \in 1 .. Len(uploadCalls) : FileCreated(c)
    \/ \E c \in 1 .. Len(uploadCalls) : UploadRejects(c)
    \/ \E c \in 1 .. Len(uploadCalls) : UploadResolves(c)
    \/ ToInputContentCalled

\* an upload object under any sequence of upload and toInputContent calls
UploadSpec == UploadInit /\ [][UploadNext]_vars

(* ======================= properties of the chain ======================= *)
Returned == pc \in {"returned", "streaming"}

IsOutputEntry(item) == item.type = "function_call_output"

\* the function_call_output entries of the returned conversation
OutputEntries == SelectSeq(input, IsOutputEntry)

IdsOf(entries) == {entries[k].call_id : k \in 1 .. Len(entries)}

LastEvent(i) == toolEvs[i][Len(toolEvs[i])]

EventsOfType(i, type) == SelectSeq(toolEvs[i], LAMBDA e : e.type = type)

\* C1: when the chain has returned, the call_id values of the function_call_output
\* entries are exactly the call_id values of the planned calls, each occurring once,
\* whatever the handlers did.
C1_ResultCallPairing ==
    Returned =>
        /\ IdsOf(OutputEntries) = IdsOf(toolCalls)
        /\ Len(OutputEntries) = Len(toolCalls)
        /\ Cardinality(IdsOf(OutputEntries)) = Len(OutputEntries)

\* a returned batch of several calls in which the first call failed after
\* retrying and the last one succeeded at once
C1_Witness ==
    /\ pc = "returned"
    /\ Len(toolCalls) >= 2
    /\ Len(tasks[1].errors) > 0
    /\ LastEvent(1).type = "tool_error"
    /\ LastEvent(Len(toolCalls)).type = "tool_success"
    /\ tasks[Len(toolCalls)].invoked = 1

\* C2: the conversation handed to the streaming request holds, for every
\* function_call entry, exactly one function_call_output entry with the same
\* call_id, and that entry comes after it.
C2_EveryCallHasOneOutput ==
    pc = "streaming" =>
        \A k \in 1 .. Len(streamInput) :
            streamInput[k].type = "function_call" =>
                /\ Cardinality({j \in 1 .. Len(streamInput) :
                        /\ streamInput[j].type = "function_call_output"
                        /\ streamInput[j].call_id = streamInput[k].call_id}) = 1
                /\ Cardinality({j \in 1 .. Len(streamInput) :
                        /\ streamInput[j].type = "function_call"
                        /\ streamInput[j].call_id = streamInput[k].call_id}) = 1
                /\ \E j \in (k + 1) .. Len(streamInput) :
                        /\ streamInput[j].type = "function_call_output"
                        /\ streamInput[j].call_id = streamInput[k].call_id

\* a streaming request issued with two function_call entries, one of a call that
\* failed
C2_Witness ==
    /\ pc = "streaming"
    /\ Len(toolCalls) >= 2
    /\ \E i \in Calls : LastEvent(i).type = "tool_error"
    /\ \E i \in Calls : LastEvent(i).type = "tool_success"

\* C3: with more calls submitted than the concurrency cap, at most CONCURRENCY
\* executeSingleTool invocations are running in any state.
C3_ConcurrencyCap ==
    Len(toolCalls) > CONCURRENCY => Cardinality(Running) <= CONCURRENCY

\* the cap is reached while a job is still waiting in the queue
C3_Witness ==
    /\ Len(toolCalls) > CONCURRENCY
    /\ Cardinality(Running) = CONCURRENCY
    /\ \E i \in Calls : tasks[i].st = "queued"

(* -------------------------- the single executor ----------------------- *)
Output(i) == tasks[i].result.output

\* the call went down one of executeSingleTool's failure paths
FailurePath(i) ==
    /\ Settled(tasks[i])
    /\ \/ ~JSONParse(toolCalls[i].arguments).ok /\ toolCalls[i].arguments # EmptyArgs
       \/ tasks[i].invoked = 0
       \/ tasks[i].outcomes[Len(tasks[i].outcomes)] \notin {"value", "undefined"}

\* C4: executeSingleTool never rejects; on every failure path (malformed arguments,
\* unknown tool, handler throw or rejection, timeout, retries exhausted, result
\* that cannot be serialized) it fulfils with the call's own call_id and a
\* serialized error envelope, and a settled batch can always be joined.
C4_NeverThrows ==
    /\ \A i \in Calls :
        /\ tasks[i].st # "rejected"
        /\ Settled(tasks[i]) => tasks[i].result.call_id = toolCalls[i].call_id
        /\ FailurePath(i) => IsErrorEnvelope(Output(i))
    /\ Len(toolCalls) > 0 => pc # "rejected"
    /\ (pc = "executing" /\ \A i \in Calls : Settled(tasks[i])) => ENABLED ChainJoin

\* scenario B: one call exhausted two retries on a throwing handler, the other
\* succeeded at once, and the chain returned
C4_Witness ==
    /\ pc = "returned"
    /\ Len(toolCalls) = 2
    /\ \E i, j \in Calls :
        /\ tasks[i].outcomes = <<"Error", "Error", "Error">>
        /\ tasks[j].outcomes = <<"value">>

\* every invocation of the handler was made and was rejected by the handler
AlwaysRejects(i) ==
    /\ Settled(tasks[i])
    /\ tasks[i].invoked > 0
    /\ \A k \in 1 .. Len(tasks[i].outcomes) : tasks[i].outcomes[k] \in RejectionKinds

\* ... with an error p-retry retries
AlwaysRejectsRetryably(i) ==
    /\ AlwaysRejects(i)
    /\ \A k \in 1 .. Len(tasks[i].outcomes) : tasks[i].outcomes[k] = "Error"

RetryEvents(i) == EventsOfType(i, "tool_retry")

\* C6 as stated: for a handler that rejects on every invocation, tool_retry is
\* emitted exactly TOOL_RETRIES times, each announcing an attempt that is then
\* made, with strictly increasing attempt numbers.
C6_RetryEventsCount ==
    \A i \in Calls :
        AlwaysRejectsRetryably(i) =>
            /\ Len(RetryEvents(i)) = TOOL_RETRIES
            /\ \A k \in 1 .. Len(RetryEvents(i)) :
                    RetryEvents(i)[k].attempt <= tasks[i].invoked
            /\ \A k \in 1 .. (Len(RetryEvents(i)) - 1) :
                    RetryEvents(i)[k].attempt < RetryEvents(i)[k + 1].attempt

\* every invocation of the handler was abandoned by the timeout
NeverSettles(i) ==
    /\ tasks[i].invoked > 0
    /\ \A k \in 1 .. Len(tasks[i].outcomes) : tasks[i].outcomes[k] = "TimeoutError"

\* C7: under fairness of the timers, a started executeSingleTool returns, a call
\* whose handler never settled returns the timeout error for its tool, and the
\* executing chain returns.
C7_TimeoutTerminates ==
    /\ [](\A i \in Calls :
            (Settled(tasks[i]) /\ NeverSettles(i)) =>
                /\ tasks[i].st = "fulfilled"
                /\ Output(i) = [json |-> [error |->
                        [class |-> "TimeoutError",
                         message |-> TimeoutMessage(toolCalls[i].name)]]])
    /\ \A i \in 1 .. MaxCalls :
            (i \in Calls /\ tasks[i].st = "pending") ~> (i \in Calls /\ Settled(tasks[i]))
    /\ (pc = "executing") ~> Returned

\* a chain that returned although the handler of one call never settled
C7_Witness ==
    /\ pc = "returned"
    /\ \E i \in Calls : Settled(tasks[i]) /\ NeverSettles(i)

InvalidArgumentsOutcome(i) ==
    /\ tasks[i].st = "fulfilled"
    /\ toolEvs[i] = <<ToolEvent("tool_error", toolCalls[i].call_id, 0, InvalidJSONError)>>
    /\ tasks[i].invoked = 0
    /\ tasks[i].outcomes = <<>>
    /\ tasks[i].result.call_id = toolCalls[i].call_id
    /\ IsErrorEnvelope(Output(i))
    /\ Deserialize(Output(i)).raw = toolCalls[i].arguments

\* C8 as stated: every call whose argument text is not valid JSON ends with one
\* tool_error, no tool_start, no handler invocation, no retry, and an output that
\* deserializes to an object with an error field and the raw text.
C8_InvalidJSONIsTerminal ==
    \A i \in Calls :
        (tasks[i].st # "queued" /\ ~JSONParse(toolCalls[i].arguments).ok) =>
            InvalidArgumentsOutcome(i)

\* C8 amended: the same, for every call whose argument text is not empty and is
\* not valid JSON.
C8_NonEmptyInvalidJSONIsTerminal ==
    \A i \in Calls :
        (/\ tasks[i].st # "queued"
         /\ toolCalls[i].arguments # ""
         /\ ~JSONParse(toolCalls[i].arguments).ok) =>
            InvalidArgumentsOutcome(i)

\* a started call with malformed argument text
C8_Witness ==
    \E i \in Calls :
        /\ toolCalls[i].arguments = MalformedArgs
        /\ tasks[i].st = "fulfilled"

\* C9: the handler of a call is the caller's mapping entry for its name if there is
\* one, else the built-in search handler if the name is search_databases; with
\* neither, the call ends with tool_error and an "Unknown tool" result for its
\* call_id, without any invocation or retry; and in a returned chain every other
\* call that has a handler and arguments was executed.
C9_HandlerResolution ==
    \A i \in Calls :
        LET name == toolCalls[i].name
            mapped == name \in DOMAIN handlers
            builtin == ~mapped /\ name = "search_databases"
            parsed == toolCalls[i].arguments \in {EmptyArgs, ValidArgs}
        IN
        (tasks[i].st # "queued" /\ parsed) =>
            /\ mapped => tasks[i].handler = handlers[name] /\ tasks[i].invoked >= 1
            /\ builtin => tasks[i].handler = "SearchDatabaseTool" /\ tasks[i].invoked >= 1
            /\ (~mapped /\ ~builtin) =>
                /\ tasks[i].st = "fulfilled"
                /\ tasks[i].invoked = 0
                /\ RetryEvents(i) = <<>>
                /\ LastEvent(i) =
                      ToolEvent("tool_error", toolCalls[i].call_id, 0,
                                [class |-> "Unknown tool", message |-> name])
                /\ Len(EventsOfType(i, "tool_error")) = 1
                /\ tasks[i].result.call_id = toolCalls[i].call_id
                /\ IsErrorEnvelope(Output(i))
                /\ Deserialize(Output(i)).error =
                      [class |-> "Unknown tool", message |-> name]
                /\ Returned => \A j \in Calls : Settled(tasks[j])

\* a returned batch with an unknown tool and a call served by the built-in handler
C9_Witness ==
    /\ Returned
    /\ \E i, j \in Calls :
        /\ toolCalls[i].name = "lookup"
        /\ tasks[i].invoked = 0
        /\ toolCalls[i].arguments = ValidArgs
        /\ tasks[j].handler = "SearchDatabaseTool"
        /\ handlers = NoHandlers
        /\ tasks[j].outcomes = <<"value">>

\* C10: with zero planned calls the chain emits chain_start, no_tools and
\* chain_complete and nothing else, starts no job, and returns a conversation
\* equal to the caller's input.
C10_NoToolsShortCircuit ==
    (pc \in {"executing", "returned", "streaming"} /\ Len(toolCalls) = 0) =>
        /\ Returned
        /\ chainEvs = <<ChainEvent("chain_start", Len(baseInput)),
                        ChainEvent("no_tools", 0),
                        ChainEvent("chain_complete", Len(baseInput))>>
        /\ input = baseInput
        /\ tasks = <<>>
        /\ toolEvs = <<>>

\* a chain that returned a non-empty conversation without planned calls
C10_Witness ==
    /\ pc = "returned"
    /\ Len(toolCalls) = 0
    /\ Len(baseInput) > 0

(* ------------------- planning, event order, single pass ---------------- *)
TypesOf(evs) == [k \in 1 .. Len(evs) |-> evs[k].type]

Emitted(type) == \E k \in 1 .. Len(chainEvs) : chainEvs[k].type = type

CountOf(type) == Cardinality({k \in 1 .. Len(chainEvs) : chainEvs[k].type = type})

PlanningRequests == SelectSeq(requests, LAMBDA r : r = "responses.create")

\* C14: when the planning round-trip fails the call rejects: the planning request
\* was issued once and is never issued again, chain_start is the only event
\* emitted, no job was created, no handler invoked, no streaming request issued,
\* and nothing happens afterwards.
C14_PlanningFailureIsFatal ==
    /\ [](Len(PlanningRequests) <= 1)
    /\ [](pc = "rejected" =>
            /\ requests = <<"responses.create">>
            /\ chainEvs = <<ChainEvent("chain_start", Len(baseInput))>>
            /\ toolCalls = <<>>
            /\ tasks = <<>>
            /\ toolEvs = <<>>
            /\ streamInput = <<>>)
    /\ [][pc = "rejected" => UNCHANGED vars]_vars

\* a call with a non-empty conversation rejected by the planning failure
C14_Witness ==
    /\ pc = "rejected"
    /\ Len(baseInput) > 0
    /\ requests = <<"responses.create">>

IsTerminal(e) == e.type \in {"tool_success", "tool_error"}

\* the order of the events of a run that planned at least one call: chain_start
\* first and once; planning_result before any tool-level event; outputs_appended
\* once, after the terminal event of every call, with the number of planned
\* calls, and no tool-level event after it; chain_complete once and last
EventOrderWithCalls ==
    /\ [](chainEvs # <<>> =>
            chainEvs[1].type = "chain_start" /\ CountOf("chain_start") = 1)
    /\ []((\E i \in Calls : toolEvs[i] # <<>>) => Emitted("planning_result"))
    /\ [](Emitted("outputs_appended") =>
            \A i \in Calls : toolEvs[i] # <<>> /\ IsTerminal(LastEvent(i)))
    /\ [][Emitted("outputs_appended") => toolEvs' = toolEvs]_vars
    /\ [][Emitted("chain_complete") => (chainEvs' = chainEvs /\ toolEvs' = toolEvs)]_vars
    /\ []((Returned /\ Len(toolCalls) > 0) =>
            chainEvs = <<ChainEvent("chain_start", Len(baseInput)),
                         ChainEvent("planning_result", Len(toolCalls)),
                         ChainEvent("outputs_appended", Len(toolCalls)),
                         ChainEvent("chain_complete", Len(baseInput) + 2 * Len(toolCalls))>>)

\* C15 as stated: every completed run has emitted exactly one outputs_appended,
\* with the number of planned calls, and exactly one chain_complete, as its last
\* event, after a single chain_start as its first.
C15_OutputsAppendedInEveryRun ==
    Returned =>
        /\ chainEvs[1].type = "chain_start"
        /\ CountOf("chain_start") = 1
        /\ CountOf("outputs_appended") = 1
        /\ \A k \in 1 .. Len(chainEvs) :
              chainEvs[k].type = "outputs_appended" => chainEvs[k].n = Len(toolCalls)
        /\ CountOf("chain_complete") = 1
        /\ chainEvs[Len(chainEvs)].type = "chain_complete"

\* C15 amended: a completed run that planned at least one call emits chain_start,
\* planning_result, the tool-level events, one outputs_appended and chain_complete
\* in that order; a completed run that planned no call emits chain_start,
\* no_tools and chain_complete and no outputs_appended.
C15_EventOrder ==
    /\ EventOrderWithCalls
    /\ []((Returned /\ Len(toolCalls) = 0) =>
            TypesOf(chainEvs) = <<"chain_start", "no_tools", "chain_complete">>)

\* a completed run of two calls, one ending in tool_error after a retry and one in
\* tool_success
C15_Witness ==
    /\ pc = "returned"
    /\ Len(toolCalls) = 2
    /\ Emitted("outputs_appended")
    /\ \E i, j \in Calls :
          /\ LastEvent(i).type = "tool_error"
          /\ Len(RetryEvents(i)) > 0
          /\ LastEvent(j).type = "tool_success"

\* C16: one planning request and then at most one streaming request are issued;
\* the streaming request is issued after the planning response and after every
\* planned call has produced its result, which is in the conversation it sends;
\* after it no request is issued and no tool runs.
C16_SinglePass ==
    /\ [](requests \in {<<>>, <<"responses.create">>,
                        <<"responses.create", "responses.stream">>})
    /\ []((entry = "extractData" /\ pc = "streaming") =>
            /\ requests = <<"responses.create", "responses.stream">>
            /\ Emitted("chain_complete")
            /\ \A i \in Calls :
                  /\ Settled(tasks[i])
                  /\ \E k \in 1 .. Len(streamInput) :
                        /\ streamInput[k].type = "function_call_output"
                        /\ streamInput[k].call_id = toolCalls[i].call_id)
    /\ []((entry = "runToolChain") => Len(requests) <= 1)
    /\ [][pc = "streaming" => UNCHANGED <<requests, tasks, toolEvs, chainEvs, input>>]_vars

\* a streaming request issued after two calls, one of them retried
C16_Witness ==
    /\ pc = "streaming"
    /\ Len(toolCalls) = 2
    /\ \E i \in Calls : tasks[i].invoked >= 2

(* ------------------------------ settle-all ----------------------------- *)
\* C17: a rejected executeSingleTool invocation does not reject the batch and
\* does not touch its siblings: the step that rejects one job leaves the others
\* as they are, every job is settled when the chain returns, the returned
\* conversation has one output per call, and the output at the position of a
\* rejected job is an error envelope with the call_id of the call submitted there.
C17_SettleAll ==
    /\ [](pc = "rejected" => tasks = <<>>)
    /\ [][\A i \in Calls :
            (i \in DOMAIN tasks' /\ tasks[i].st # "rejected" /\ tasks'[i].st = "rejected") =>
                \A j \in Calls \ {i} : tasks'[j] = tasks[j]]_vars
    /\ []((Returned /\ Len(toolCalls) > 0) =>
            /\ Len(OutputEntries) = Len(toolCalls)
            /\ \A i \in Calls :
                  /\ Settled(tasks[i])
                  /\ tasks[i].st = "rejected" =>
                        /\ OutputEntries[i].call_id = toolCalls[i].call_id
                        /\ IsErrorEnvelope(OutputEntries[i].output)
                        /\ Deserialize(OutputEntries[i].output).error =
                              [class |-> "Error", message |-> "observer failed"]
                  /\ tasks[i].st = "fulfilled" =>
                        OutputEntries[i].call_id = toolCalls[i].call_id)

\* a returned batch in which one invocation rejected and a sibling ran its handler
\* and succeeded
C17_Witness ==
    /\ pc = "returned"
    /\ \E i, j \in Calls :
          /\ tasks[i].st = "rejected"
          /\ tasks[j].st = "fulfilled"
          /\ tasks[j].outcomes = <<"value">>
          /\ LastEvent(j).type = "tool_success"

(* ------------------------------- outputs ------------------------------- *)
\* C19: a single planned call whose handler fulfils on its first attempt with a
\* value that has a JSON serialization: the events of the call are one tool_start
\* followed by one tool_success, the handler was invoked once, and the returned
\* conversation is the caller's followed by the function_call entry and a
\* function_call_output entry whose output is the JSON text of the value.
C19_ScenarioA ==
    (Returned /\ Len(toolCalls) = 1 /\ tasks[1].outcomes = <<"value">>) =>
        /\ toolEvs[1] = <<ToolStart(toolCalls[1].call_id, tasks[1].args),
                          ToolEvent("tool_success", toolCalls[1].call_id, 1, NoError)>>
        /\ tasks[1].invoked = 1
        /\ input = baseInput \o
              <<FunctionCall(toolCalls[1].call_id, toolCalls[1].name, toolCalls[1].arguments),
                [type |-> "function_call_output",
                 call_id |-> toolCalls[1].call_id,
                 output |-> [json |-> [hits |-> 3]]]>>

\* scenario A on a non-empty conversation
C19_Witness ==
    /\ pc = "returned"
    /\ Len(toolCalls) = 1
    /\ tasks[1].outcomes = <<"value">>
    /\ Len(baseInput) > 0

\* the last invocation of the call's handler fulfilled
HandlerSucceeded(i) ==
    /\ tasks[i].outcomes # <<>>
    /\ tasks[i].outcomes[Len(tasks[i].outcomes)] \in {"value", "undefined", "circular"}

\* C20 as stated: the output of every function_call_output entry is a JSON text,
\* never empty, and is an error envelope exactly when it is not the handler's
\* serialized success payload, whatever the handler did, a return of undefined
\* included.
C20_OutputIsJSON ==
    Returned =>
        \A i \in 1 .. Len(OutputEntries) :
            /\ OutputEntries[i].output # EmptyString
            /\ IsJSONText(OutputEntries[i].output)
            /\ IsErrorEnvelope(OutputEntries[i].output) =
                  ~(HandlerSucceeded(i) /\ tasks[i].outcomes[Len(tasks[i].outcomes)] # "circular")

(* ===================== properties of the generator ===================== *)
ItemsOf(events) == [k \in 1 .. Len(events) |-> StreamItem(events[k])]

IterationEnded == gen \in {"completed", "threw"}

\* C11 as stated: no event the provider emits after extractData returned is
\* dropped: it is buffered or has been yielded, once and in order, and when the
\* iteration has ended the consumer has received every one of them, whenever it
\* made its first pull.
C11_NoEventDropped ==
    /\ ItemsOf(emitted) = yielded \o queue
    /\ IterationEnded => yielded = ItemsOf(emitted)

\* C12: the items are yielded in the order in which they were pushed, none
\* twice: what was yielded, followed by what is buffered, is what was pushed.
C12_YieldedInPushOrder ==
    /\ pushed = yielded \o queue
    /\ \A j, k \in 1 .. Len(yielded) : j < k => yielded[j] # yielded[k]

\* one item was yielded while two later ones of different kinds wait in the buffer
C12_Witness ==
    /\ Len(yielded) = 1
    /\ Len(queue) = 2
    /\ queue[1].kind # queue[2].kind

\* C13 as stated: the iteration has ended only if the completion promise has
\* settled, fulfilled or rejected, and the buffer is empty: it never ends while
\* an item is still buffered or while completion is pending.
C13_EndsWhenSettledAndDrained ==
    IterationEnded => (completion # "pending" /\ queue = <<>>)

\* an error item of the buffer history sits at its arrival position
ErrorItemInPlace(k) ==
    IF k <= Len(yielded) THEN yielded[k] = pushed[k]
    ELSE queue[k - Len(yielded)] = pushed[k]

\* the step is the emission of a response.error event
ErrorEventStep ==
    emitted' = Append(emitted, StreamEvent("response.error", Len(emitted) + 1))

CallEntries ==
    [k \in 1 .. Len(toolCalls) |->
        FunctionCall(toolCalls[k].call_id, toolCalls[k].name, toolCalls[k].arguments)]

\* the step appends every function_call entry; no handler has started
CallsAppendedStep ==
    /\ pc = "planning"
    /\ pc' = "executing"
    /\ input' = input \o [k \in 1 .. Len(toolCalls') |->
                    FunctionCall(toolCalls'[k].call_id, toolCalls'[k].name,
                                 toolCalls'[k].arguments)]
    /\ \A i \in 1 .. Len(tasks') : tasks'[i].invoked = 0

\* the step appends one function_call_output entry per call; every call has settled
OutputsAppendedStep ==
    /\ pc = "executing"
    /\ pc' = "returned"
    /\ \A i \in Calls : Settled(tasks[i])
    /\ Len(input') = Len(input) + Len(toolCalls)
    /\ SubSeq(input', 1, Len(input)) = input
    /\ \A k \in (Len(input) + 1) .. Len(input') : IsOutputEntry(input'[k])

\* C22: the conversation changes only in the orchestrator's two steps: every
\* function_call entry is appended before any handler starts, every
\* function_call_output entry is appended in one step after all calls of the
\* batch have settled, and while the handlers run the conversation stays the
\* caller's input followed by the function_call entries.
C22_SequentialMutation ==
    /\ [](pc = "executing" => input = baseInput \o CallEntries)
    /\ [](\A i \in Calls : tasks[i].invoked > 0 =>
              SubSeq(input, 1, Len(baseInput) + Len(toolCalls)) = baseInput \o CallEntries)
    /\ [][(input' # input /\ pc # "called") =>
              (CallsAppendedStep \/ OutputsAppendedStep)]_vars

\* between the two steps: one handler has finished, another is running, and the
\* conversation holds no output entry
C22_Witness ==
    /\ pc = "executing"
    /\ Len(toolCalls) = 2
    /\ tasks[1].st = "fulfilled"
    /\ tasks[1].outcomes = <<"value">>
    /\ tasks[2].st = "pending"
    /\ OutputEntries = <<>>

(* ------------------------- timeouts are retried ------------------------ *)
\* C23: a timeout is a retryable failure and every attempt has its own timeout:
\* a call whose handler never settles has its handler invoked exactly
\* TOOL_RETRIES + 1 times, each invocation abandoned by a timeout of its own,
\* before the timeout error result is returned; until then a fired timeout
\* leads to another attempt.
C23_TimeoutIsRetried ==
    \A i \in Calls :
        NeverSettles(i) =>
            /\ tasks[i].invoked <= TOOL_RETRIES + 1
            /\ tasks[i].st = "backoff" =>
                  /\ tasks[i].invoked <= TOOL_RETRIES
                  /\ Len(tasks[i].outcomes) = tasks[i].invoked
            /\ Settled(tasks[i]) =>
                  /\ tasks[i].invoked = TOOL_RETRIES + 1
                  /\ Len(tasks[i].outcomes) = TOOL_RETRIES + 1
                  /\ tasks[i].st = "fulfilled"
                  /\ Output(i) = [json |-> [error |->
                          [class |-> "TimeoutError",
                           message |-> TimeoutMessage(toolCalls[i].name)]]]

\* a call that returned the timeout error after its handler was invoked twice
\* and abandoned twice
C23_Witness ==
    \E i \in Calls :
        /\ TOOL_RETRIES = 1
        /\ tasks[i].st = "fulfilled"
        /\ tasks[i].invoked = 2
        /\ tasks[i].outcomes = <<"TimeoutError", "TimeoutError">>

(* ----------------------- the returned conversation --------------------- *)
\* C26: runToolChain never modifies the caller's baseInput; the conversation it
\* returns is baseInput followed by the N function_call entries in planning
\* order followed by N function_call_output entries, has length
\* |baseInput| + 2N, and chain_complete reports that length as outputSize.
C26_ReturnsNewConversation ==
    /\ [](Returned =>
            LET N == Len(toolCalls)
                B == Len(baseInput)
            IN
            /\ Len(input) = B + 2 * N
            /\ SubSeq(input, 1, B + N) = baseInput \o CallEntries
            /\ \A k \in (B + N + 1) .. (B + 2 * N) : IsOutputEntry(input[k])
            /\ chainEvs[Len(chainEvs)] = ChainEvent("chain_complete", B + 2 * N))
    /\ [][baseInput' = baseInput]_vars

\* a returned chain with a non-empty caller input and two planned calls
C26_Witness ==
    /\ pc = "returned"
    /\ Len(baseInput) = 1
    /\ Len(toolCalls) = 2
    /\ Len(input) = 5

(* ------------------------ terminal events of a call -------------------- *)
\* the tool_success and tool_error events emitted for call i, in order
TerminalEvents(i) == SelectSeq(toolEvs[i], IsTerminal)

\* C27 as stated: for every call of a batch and every handler outcome, a result
\* that cannot be serialized included, exactly one terminal event is emitted
\* for the call, a tool_success or a tool_error, and the call's output is an
\* error envelope exactly when that event is a tool_error.
C27_OneTerminalEvent ==
    \A i \in Calls :
        Settled(tasks[i]) =>
            /\ Len(TerminalEvents(i)) = 1
            /\ (TerminalEvents(i)[1].type = "tool_error") = IsErrorEnvelope(Output(i))

(* -------------------------- empty argument text ------------------------ *)
\* a handler is registered for the name, or the name has the built-in one
HasHandler(name) == name \in DOMAIN handlers \/ name = "search_databases"

\* C29: a call whose raw argument text is empty is not an argument error: once
\* its job has started, its first event is tool_start with the empty argument
\* object, no invalid-arguments tool_error is emitted and the output is no
\* invalid-arguments envelope; if the name has a handler, the handler is
\* invoked with {}.
C29_EmptyArgumentsAreNoError ==
    \A i \in Calls :
        (toolCalls[i].arguments = EmptyArgs /\ tasks[i].st # "queued") =>
            /\ toolEvs[i][1] = ToolStart(toolCalls[i].call_id, EmptyObject)
            /\ \A k \in 1 .. Len(toolEvs[i]) : toolEvs[i][k].error # InvalidJSONError
            /\ tasks[i].st = "fulfilled" =>
                  (IsErrorEnvelope(Output(i)) =>
                       Deserialize(Output(i)).error # InvalidJSONError)
            /\ HasHandler(toolCalls[i].name) =>
                  /\ tasks[i].invoked >= 1
                  /\ tasks[i].handler # Undefined
                  /\ tasks[i].args = EmptyObject

\* a call with empty argument text whose handler ran and returned a value
C29_Witness ==
    \E i \in Calls :
        /\ toolCalls[i].arguments = EmptyArgs
        /\ tasks[i].st = "fulfilled"
        /\ tasks[i].args = EmptyObject
        /\ tasks[i].outcomes = <<"value">>
        /\ Output(i) = [json |-> HitsValue]

(* ---------------------- a fulfilled invocation is final ---------------- *)
\* the k-th invocation of call i's handler fulfilled within its timeout
FulfilledAt(i, k) == tasks[i].outcomes[k] \in {"value", "undefined", "circular"}

\* C30 as stated: a handler invocation that fulfilled within its timeout is the
\* last one of its call, no tool_retry follows the tool_success, and the output
\* of a call whose handler fulfilled with a serializable value is the JSON text
\* of that value, whatever the observer does when it is notified.
C30_FulfilmentIsFinal ==
    \A i \in Calls :
        \A k \in 1 .. Len(tasks[i].outcomes) :
            FulfilledAt(i, k) =>
                /\ k = Len(tasks[i].outcomes)
                /\ tasks[i].invoked = k
                /\ \A m, n \in 1 .. Len(toolEvs[i]) :
                      (m < n /\ toolEvs[i][m].type = "tool_success") =>
                          toolEvs[i][n].type # "tool_retry"
                /\ (Settled(tasks[i]) /\ tasks[i].outcomes[k] = "value") =>
                      /\ tasks[i].st = "fulfilled"
                      /\ Output(i) = [json |-> HitsValue]

(* ------------------------- outputs keep planning order ----------------- *)
\* C25: the outputs are aligned positionally with the planned calls, whatever
\* the order in which the jobs settle: the i-th function_call_output entry of
\* the returned conversation carries the call_id of the i-th planned call, and
\* the output entries follow the function_call entries in the same order.
C25_OutputsInPlanningOrder ==
    Returned =>
        /\ Len(OutputEntries) = Len(toolCalls)
        /\ \A i \in Calls :
              /\ OutputEntries[i].call_id = toolCalls[i].call_id
              /\ input[Len(baseInput) + Len(toolCalls) + i].call_id
                    = input[Len(baseInput) + i].call_id

\* a returned chain whose second call settled before its first, one of them
\* with a rejected job
C25_Witness ==
    /\ pc = "returned"
    /\ Len(toolCalls) = 2
    /\ tasks[2].rank = 1
    /\ tasks[1].rank = 2
    /\ \E i \in Calls : tasks[i].st = "rejected"

(* --------------------- handler invocations in flight ------------------- *)
\* invocations of call i's handler that were left behind by their timeout.  The
\* handler is called as handler(args), without the controller's signal, and
\* pTimeout does not cancel the promise it waits for: an invocation that hangs
\* goes on running after its timeout has fired
AbandonedInvocations(i) ==
    Len(SelectSeq(tasks[i].outcomes, LAMBDA o : o = "TimeoutError"))

\* invocations of call i's handler in flight when its handler hangs: the one
\* the current attempt waits for and those left behind by a timeout
InFlightOf(i) ==
    (IF tasks[i].st = "pending" THEN 1 ELSE 0) + AbandonedInvocations(i)

RECURSIVE InFlightUpTo(_)
InFlightUpTo(n) == IF n = 0 THEN 0 ELSE InFlightOf(n) + InFlightUpTo(n - 1)

\* handler invocations of the batch in flight
InFlight == InFlightUpTo(Len(tasks))

\* C28 as stated: no more than CONCURRENCY handler invocations are in flight at
\* any time, the invocations whose timeout has fired included.
C28_InFlightCap == InFlight <= CONCURRENCY

(* ------------------------ extractData and its tools -------------------- *)
\* the planning round-trip was skipped: no planning request, no handler
\* invocation, and the streaming request gets the caller's converted input
ChainSkipped ==
    /\ PlanningRequests = <<>>
    /\ toolCalls = <<>>
    /\ tasks = <<>>
    /\ chainEvs = <<>>
    /\ pc = "streaming" => (streamInput = baseInput /\ requests = <<"responses.stream">>)

\* the planning round-trip is made before the streaming request, whose
\* conversation is framed by the two system messages
ChainFramed ==
    pc = "streaming" =>
        /\ requests = <<"responses.create", "responses.stream">>
        /\ Len(streamInput) = Len(input) + 2
        /\ streamInput[1] = SystemTop
        /\ streamInput[Len(streamInput)] = SystemFinal
        /\ SubSeq(streamInput, 2, Len(streamInput) - 1) = input

SomeUploadCompleted == \E c \in 1 .. Len(uploadCalls) : uploadCalls[c].st = "fulfilled"

\* the content refers to the file with this id, in the form of the class
RefersTo(result, id) ==
    /\ DOMAIN result = {"returns"}
    /\ Len(result.returns) = 1
    /\ IF inputClass = "ImageUpload"
       THEN /\ result.returns[1].type = "image_url"
            /\ result.returns[1].image_url.url = "file://" \o id
       ELSE /\ result.returns[1].type = "input_file"
            /\ result.returns[1].file_id = id

\* the step is a call of toInputContent()
ConversionStep == conversions' = conversions + 1

\* the step is the failure of an upload() call
UploadFailureStep ==
    \E c \in 1 .. Len(uploadCalls) :
        uploadCalls[c].st # "rejected" /\ uploadCalls'[c].st = "rejected"

\* C21: for ImageUpload and PDFUpload objects, under any sequence of upload and
\* toInputContent calls, toInputContent throws the must-be-uploaded error in
\* every state in which no upload has completed successfully and otherwise
\* returns content referring to the id of the upload that completed
\* successfully last; an upload that fails leaves the stored result unchanged.
C21_ContentFollowsLatestUpload ==
    /\ [][ConversionStep =>
            IF SomeUploadCompleted
            THEN RefersTo(content', lastCompleted)
            ELSE content' = [throws |-> NotUploadedMessage]]_vars
    /\ [][UploadFailureStep => uploadResult' = uploadResult]_vars
    /\ [](SomeUploadCompleted <=> uploadResult # UndefinedValue)

\* after two uploads that completed in the reverse of the order in which their
\* files were created and a third that failed, toInputContent has returned
\* content referring to the file of the upload that completed last
C21_Witness ==
    /\ Len(uploadCalls) = 3
    /\ uploadCalls[1].st = "fulfilled"
    /\ uploadCalls[2].st = "fulfilled"
    /\ uploadCalls[3].st = "rejected"
    /\ lastCompleted = uploadCalls[1].id
    /\ uploadCalls[1].id = FileIdAt(1)
    /\ conversions > 0
    /\ RefersTo(content, lastCompleted)

====
